---- MODULE Spec2Model ----
(***************************************************************************)
(* Model of icloudpd/authentication.py: authenticator(domain) ->           *)
(* authenticate_, request_2fa and request_2sa.                             *)
(*                                                                         *)
(* One action per statement of the source that talks to the outside world  *)
(* (a PyiCloudService call, a click prompt, a print, a logger call, a      *)
(* raise, sys.exit, the return).  Every such step appends one event to     *)
(* `trace`, so that counts and orderings of calls can be stated.           *)
(* The Session Client (pyicloud) and the human are the environment: their  *)
(* answers are drawn with \E from small sets.                              *)
(***************************************************************************)
EXTENDS Integers, Sequences, FiniteSets, TLC

VARIABLES pc, password, raise_error_on_2sa, icloud, devices, devices_count,
          device_index, device, code, trace, result

vars == <<pc, password, raise_error_on_2sa, icloud, devices, devices_count,
          device_index, device, code, trace, result>>

----------------------------------------------------------------------------
(* Bounds *)

\* openSession calls allowed in one run (the while-True loop is unbounded)
MaxOpens == 4
\* rejected inputs allowed at the device-selection prompt
MaxRejects == 2
\* longest trusted-device list the server returns
MaxDevices == 2

----------------------------------------------------------------------------
(* Values *)

\* Python's None
NONE == "<None>"

Domain == "com"
Username == "user@example.com"
\* cookie_directory, client_id, china_mainland, passed by keyword
Options == "session-options"

\* password argument of authenticate_: absent (None) or given
InitialPasswords == {NONE, "cli-secret"}
\* what the human may type at the masked prompt
TypedSecrets == {"typed-secret"}
\* what the human may type at a code prompt
TypedCodes == {"123456"}

\* outcomes of PyiCloudService(...): a session, or one of the failures
NoStoredPassword == "PyiCloudNoStoredPasswordAvailableException"
OtherFailures == {"PyiCloudFailedLoginException", "ConnectionError"}
OpenFailures == {NoStoredPassword} \cup OtherFailures

\* a dict is a set of <<key, value>> pairs; {} is the empty dict
EmptyDict == {}
DictHas(d, k) == \E p \in d : p[1] = k
\* dict.get(k, default)
DictGet(d, k, default) == IF DictHas(d, k) THEN (CHOOSE p \in d : p[1] = k)[2] ELSE default

TrustedDeviceKinds ==
    { {<<"deviceName", "iPhone">>},
      {<<"phoneNumber", "+15551234">>},
      {<<"deviceName", "iPad">>, <<"phoneNumber", "+15550000">>} }

RECURSIVE SeqsUpTo(_, _)
SeqsUpTo(S, n) ==
    IF n = 0 THEN {<<>>}
    ELSE LET shorter == SeqsUpTo(S, n - 1)
         IN  shorter \cup {Append(s, x) : s \in {t \in shorter : Len(t) = n - 1}, x \in S}

\* the lists icloud.trusted_devices may return
DeviceLists == SeqsUpTo(TrustedDeviceKinds, MaxDevices)

\* integers the human may type at the selection prompt
TypedInts == (0 - 1) .. (MaxDevices + 1)

\* the session object before any PyiCloudService call has returned
NoSession == [id |-> 0, requires_2fa |-> FALSE, requires_2sa |-> FALSE]

Running == [kind |-> "running", exc |-> "", status |-> 0, session |-> 0]

----------------------------------------------------------------------------
(* Trace of externally visible steps *)

Ev(op, arg, res) == [op |-> op, arg |-> arg, res |-> res]
Log(e) == trace' = Append(trace, e)

Idx(op) == {i \in DOMAIN trace : trace[i].op = op}
Count(op) == Cardinality(Idx(op))
NumOpens == Count("openSession")

----------------------------------------------------------------------------
Init ==
    /\ pc = "start"
    /\ password \in InitialPasswords
    /\ raise_error_on_2sa \in BOOLEAN
    /\ icloud = NoSession
    /\ devices = <<>>
    /\ devices_count = 0
    /\ device_index = 0
    /\ device = EmptyDict
    /\ code = NONE
    /\ trace = <<>>
    /\ result = Running

\* an exception leaves authenticate_
Raise(exc) ==
    /\ pc' = "done"
    /\ result' = [kind |-> "raised", exc |-> exc, status |-> 0, session |-> 0]

\* line 27: logger.debug("Authenticating...")
Debug ==
    /\ pc = "start"
    /\ pc' = "try"
    /\ Log(Ev("logger.debug", "Authenticating...", NONE))
    /\ UNCHANGED <<password, raise_error_on_2sa, icloud, devices, devices_count,
                   device_index, device, code, result>>

\* the session a successful PyiCloudService call number n returns
NewSession(n, fa, sa) == [id |-> n, requires_2fa |-> fa, requires_2sa |-> sa]

\* variant: a bare except clause
Caught_Any(f) == TRUE

\* line 40: except pyicloud.exceptions.PyiCloudNoStoredPasswordAvailableException
Caught(f) == f = NoStoredPassword

\* variant: no break after the call
AfterTry_NoBreak == "try"

\* line 39: break leaves the loop for the test of line 49
AfterTry == "if_2fa"

\* lines 29-40: the call inside try; success breaks out of the loop, the
\* exception the except clause names enters the handler, any other propagates
OpenTry ==
    /\ pc = "try"
    /\ NumOpens < MaxOpens
    /\ LET call == [pos |-> <<Domain, Username, password>>, kw |-> Options]
       IN  \/ \E fa \in BOOLEAN, sa \in BOOLEAN :
                /\ icloud' = NewSession(NumOpens + 1, fa, sa)
                /\ Log(Ev("openSession", call, "ok"))
                /\ pc' = AfterTry
                /\ UNCHANGED result
           \/ \E f \in OpenFailures :
                /\ Log(Ev("openSession", call, f))
                /\ IF Caught(f)
                   THEN pc' = "except" /\ UNCHANGED result
                   ELSE Raise(f)
                /\ UNCHANGED icloud
    /\ UNCHANGED <<password, raise_error_on_2sa, devices, devices_count,
                   device_index, device, code>>

\* line 42: password = click.prompt("iCloud Password", hide_input=True)
PromptPassword ==
    /\ pc = "except"
    /\ \E s \in TypedSecrets :
         /\ password' = s
         /\ Log(Ev("prompt.password", [text |-> "iCloud Password", hide_input |-> TRUE], s))
    /\ pc' = "retry"
    /\ UNCHANGED <<raise_error_on_2sa, icloud, devices, devices_count,
                   device_index, device, code, result>>

\* where control goes after the handler's call returns a session: the
\* handler has no break, so the while-True loop runs the try block again
AfterRetry == "try"

\* variant: the retry sits inside the try block
CaughtInHandler_Again(f) == f = NoStoredPassword

\* an exception raised inside the except suite is outside the try block,
\* so the except clause of line 40 does not apply to it
CaughtInHandler(f) == FALSE

\* lines 43-47: the call inside the except handler (no domain argument)
OpenRetry ==
    /\ pc = "retry"
    /\ NumOpens < MaxOpens
    /\ LET call == [pos |-> <<Username, password>>, kw |-> Options]
       IN  \/ \E fa \in BOOLEAN, sa \in BOOLEAN :
                /\ icloud' = NewSession(NumOpens + 1, fa, sa)
                /\ Log(Ev("openSession", call, "ok"))
                /\ pc' = AfterRetry
                /\ UNCHANGED result
           \/ \E f \in OpenFailures :
                /\ Log(Ev("openSession", call, f))
                /\ IF CaughtInHandler(f)
                   THEN pc' = "except" /\ UNCHANGED result
                   ELSE Raise(f)
                /\ UNCHANGED icloud
    /\ UNCHANGED <<password, raise_error_on_2sa, devices, devices_count,
                   device_index, device, code>>

----------------------------------------------------------------------------
(* authenticate_, lines 49-63: regime detection *)

TwoFactorMsg == "Two-factor authentication is required!"
TwoStepMsg == "Two-step/two-factor authentication is required!"
TwoStepInfo == "Two-step authentication is required!"

\* variant: the two tests in the other order
If2fa_LegacyFirst ==
    /\ pc = "if_2fa"
    /\ Log(Ev("read.requires_2sa", icloud.id, icloud.requires_2sa))
    /\ pc' = IF icloud.requires_2sa THEN "2sa_mode"
             ELSE IF icloud.requires_2fa THEN "2fa_mode" ELSE "return"
    /\ UNCHANGED <<password, raise_error_on_2sa, icloud, devices, devices_count,
                   device_index, device, code, result>>

\* line 49: if icloud.requires_2fa
If2fa ==
    /\ pc = "if_2fa"
    /\ Log(Ev("read.requires_2fa", icloud.id, icloud.requires_2fa))
    /\ pc' = IF icloud.requires_2fa THEN "2fa_mode" ELSE "elif_2sa"
    /\ UNCHANGED <<password, raise_error_on_2sa, icloud, devices, devices_count,
                   device_index, device, code, result>>

\* lines 50-53: if raise_error_on_2sa: raise TwoStepAuthRequiredError(...)
Raise2fa ==
    /\ pc = "2fa_mode"
    /\ raise_error_on_2sa
    /\ Log(Ev("raise", "TwoStepAuthRequiredError", TwoFactorMsg))
    /\ pc' = "done"
    /\ result' = [kind |-> "raised", exc |-> "TwoStepAuthRequiredError", status |-> 0,
                  session |-> 0]
    /\ UNCHANGED <<password, raise_error_on_2sa, icloud, devices, devices_count,
                   device_index, device, code>>

\* line 54: logger.info("Two-factor authentication is required!")
Info2fa ==
    /\ pc = "2fa_mode"
    /\ ~raise_error_on_2sa
    /\ Log(Ev("logger.info", TwoFactorMsg, NONE))
    /\ pc' = "2fa_prompt"
    /\ UNCHANGED <<password, raise_error_on_2sa, icloud, devices, devices_count,
                   device_index, device, code, result>>

\* variant: the 2SA branch is taken without testing the facet
Elif2sa_Always ==
    /\ pc = "elif_2sa"
    /\ Log(Ev("read.requires_2sa", icloud.id, icloud.requires_2sa))
    /\ pc' = "2sa_mode"
    /\ UNCHANGED <<password, raise_error_on_2sa, icloud, devices, devices_count,
                   device_index, device, code, result>>

\* line 56: elif icloud.requires_2sa; neither facet set falls through to
\* the return of line 63
Elif2sa ==
    /\ pc = "elif_2sa"
    /\ Log(Ev("read.requires_2sa", icloud.id, icloud.requires_2sa))
    /\ pc' = IF icloud.requires_2sa THEN "2sa_mode" ELSE "return"
    /\ UNCHANGED <<password, raise_error_on_2sa, icloud, devices, devices_count,
                   device_index, device, code, result>>

\* variant: the message of the 2FA branch copied into the 2SA branch
Raise2sa_SameMessage ==
    /\ pc = "2sa_mode"
    /\ raise_error_on_2sa
    /\ Log(Ev("raise", "TwoStepAuthRequiredError", TwoFactorMsg))
    /\ pc' = "done"
    /\ result' = [kind |-> "raised", exc |-> "TwoStepAuthRequiredError", status |-> 0,
                  session |-> 0]
    /\ UNCHANGED <<password, raise_error_on_2sa, icloud, devices, devices_count,
                   device_index, device, code>>

\* lines 57-60: if raise_error_on_2sa: raise TwoStepAuthRequiredError(...)
Raise2sa ==
    /\ pc = "2sa_mode"
    /\ raise_error_on_2sa
    /\ Log(Ev("raise", "TwoStepAuthRequiredError", TwoStepMsg))
    /\ pc' = "done"
    /\ result' = [kind |-> "raised", exc |-> "TwoStepAuthRequiredError", status |-> 0,
                  session |-> 0]
    /\ UNCHANGED <<password, raise_error_on_2sa, icloud, devices, devices_count,
                   device_index, device, code>>

\* variant: the flow is entered whatever raise_error_on_2sa says
Info2sa_Always ==
    /\ pc = "2sa_mode"
    /\ Log(Ev("logger.info", TwoStepInfo, NONE))
    /\ pc' = "2sa_devices"
    /\ UNCHANGED <<password, raise_error_on_2sa, icloud, devices, devices_count,
                   device_index, device, code, result>>

\* line 61: logger.info("Two-step authentication is required!")
Info2sa ==
    /\ pc = "2sa_mode"
    /\ ~raise_error_on_2sa
    /\ Log(Ev("logger.info", TwoStepInfo, NONE))
    /\ pc' = "2sa_devices"
    /\ UNCHANGED <<password, raise_error_on_2sa, icloud, devices, devices_count,
                   device_index, device, code, result>>

\* line 63: return icloud
Return ==
    /\ pc = "return"
    /\ Log(Ev("return", icloud.id, NONE))
    /\ pc' = "done"
    /\ result' = [kind |-> "returned", exc |-> "", status |-> 0, session |-> icloud.id]
    /\ UNCHANGED <<password, raise_error_on_2sa, icloud, devices, devices_count,
                   device_index, device, code>>

\* sys.exit(status): SystemExit ends the process
SysExit(status) ==
    /\ Log(Ev("sys.exit", status, NONE))
    /\ pc' = "done"
    /\ result' = [kind |-> "exit", exc |-> "SystemExit", status |-> status, session |-> 0]

ExitStatus == 1

----------------------------------------------------------------------------
(* request_2fa, lines 66-78 *)

CodePrompt == "Please enter two-factor authentication code"
VerifyFailedMsg == "Failed to verify two-factor authentication code"
SendFailedMsg == "Failed to send two-factor authentication code"
Guidance2faMsg == "Great, you're all set up ... until 2FA expires."
Guidance2saMsg == "Great, you're all set up ... until 2SA expires."

\* line 68: code = click.prompt("Please enter two-factor authentication code")
Prompt2faCode ==
    /\ pc = "2fa_prompt"
    /\ \E c \in TypedCodes :
         /\ code' = c
         /\ Log(Ev("prompt.code", [text |-> CodePrompt, hide_input |-> FALSE], c))
    /\ pc' = "2fa_validate"
    /\ UNCHANGED <<password, raise_error_on_2sa, icloud, devices, devices_count,
                   device_index, device, result>>

\* variant: a rejected code is asked for again
After2faValidate_Retry(ok) == IF ok THEN "2fa_guidance" ELSE "2fa_prompt"

\* where request_2fa goes on the result of validate_2fa_code
After2faValidate(ok) == IF ok THEN "2fa_guidance" ELSE "2fa_error"

\* line 69: if not icloud.validate_2fa_code(code)
Validate2fa ==
    /\ pc = "2fa_validate"
    /\ \E ok \in BOOLEAN :
         /\ Log(Ev("validate_2fa_code", <<code>>, ok))
         /\ pc' = After2faValidate(ok)
    /\ UNCHANGED <<password, raise_error_on_2sa, icloud, devices, devices_count,
                   device_index, device, code, result>>

\* variant: sys.exit(1) before the error is logged
Error2fa_ExitFirst ==
    /\ pc = "2fa_error"
    /\ Log(Ev("sys.exit", ExitStatus, NONE))
    /\ pc' = "done"
    /\ result' = [kind |-> "exit", exc |-> "SystemExit", status |-> ExitStatus, session |-> 0]
    /\ UNCHANGED <<password, raise_error_on_2sa, icloud, devices, devices_count,
                   device_index, device, code>>

\* line 70: logger.error("Failed to verify two-factor authentication code")
Error2fa ==
    /\ pc = "2fa_error"
    /\ Log(Ev("logger.error", VerifyFailedMsg, NONE))
    /\ pc' = "2fa_exit"
    /\ UNCHANGED <<password, raise_error_on_2sa, icloud, devices, devices_count,
                   device_index, device, code, result>>

\* line 71: sys.exit(1)
Exit2fa ==
    /\ pc = "2fa_exit"
    /\ SysExit(ExitStatus)
    /\ UNCHANGED <<password, raise_error_on_2sa, icloud, devices, devices_count,
                   device_index, device, code>>

\* lines 72-78: logger.info("Great, you're all set up. ..."), then back in
\* authenticate_ at line 63
Guidance2fa ==
    /\ pc = "2fa_guidance"
    /\ Log(Ev("logger.info", Guidance2faMsg, NONE))
    /\ pc' = "return"
    /\ UNCHANGED <<password, raise_error_on_2sa, icloud, devices, devices_count,
                   device_index, device, code, result>>

----------------------------------------------------------------------------
(* request_2sa, lines 80-125 *)

\* a piece of text is a sequence of fragments; \o concatenates
Digit(d) == <<"0", "1", "2", "3", "4", "5", "6", "7", "8", "9">>[d + 1]

\* "%s" of a non-negative int
RECURSIVE IntStr(_)
IntStr(n) == IF n < 10 THEN <<Digit(n)>> ELSE IntStr(n \div 10) \o <<Digit(n % 10)>>

\* "%s" of a str or None
PyStr(x) == IF x = NONE THEN <<"None">> ELSE <<x>>

\* variant: the phone number takes precedence over the name
DeviceLabel_PhoneFirst(d) ==
    IF DictHas(d, "phoneNumber")
    THEN <<"SMS to ">> \o PyStr(DictGet(d, "phoneNumber", NONE))
    ELSE PyStr(DictGet(d, "deviceName", NONE))

\* lines 90-92: device.get("deviceName", "SMS to %s" % device.get("phoneNumber"))
DeviceLabel(d) ==
    IF DictHas(d, "deviceName")
    THEN PyStr(DictGet(d, "deviceName", NONE))
    ELSE <<"SMS to ">> \o PyStr(DictGet(d, "phoneNumber", NONE))

\* lines 88-92: "  %s: %s" % (i, label), i counted from 0 by enumerate
DeviceLine(i, d) == <<"  ">> \o IntStr(i) \o <<": ">> \o DeviceLabel(d)

\* line 96: f"  {devices_count}: Enter two-factor authentication code"
SyntheticLine(n) == <<"  ">> \o IntStr(n) \o <<": Enter two-factor authentication code">>

\* lines 86-96: the lines printed, in order
MenuLines(ds) == [k \in 1 .. Len(ds) + 1 |->
                    IF k <= Len(ds) THEN DeviceLine(k - 1, ds[k]) ELSE SyntheticLine(Len(ds))]

\* variant: the menu is shown for an empty list too
ShowsMenu_Always(count) == count >= 0

\* line 85: if devices_count > 0
ShowsMenu(count) == count > 0

\* lines 82-85: devices = icloud.trusted_devices; devices_count = len(devices);
\* device_index = 0; then the test of line 85
FetchDevices ==
    /\ pc = "2sa_devices"
    /\ \E ds \in DeviceLists :
         /\ devices' = ds
         /\ devices_count' = Len(ds)
         /\ Log(Ev("read.trusted_devices", icloud.id, ds))
         /\ pc' = IF ShowsMenu(Len(ds)) THEN "2sa_menu" ELSE "2sa_branch"
    /\ device_index' = 0
    /\ UNCHANGED <<password, raise_error_on_2sa, icloud, device, code, result>>

\* lines 86-96: one print per device, then the extra entry
PrintMenu ==
    /\ pc = "2sa_menu"
    /\ trace' = trace \o [k \in 1 .. devices_count + 1 |-> Ev("print", MenuLines(devices)[k], NONE)]
    /\ pc' = "2sa_choose"
    /\ UNCHANGED <<password, raise_error_on_2sa, icloud, devices, devices_count,
                   device_index, device, code, result>>

ChoicePrompt == "Please choose an option:"
ChoiceDefault == 0

\* variant: click.IntRange(0, devices_count, clamp=True)
ChoiceType_Clamp(n) == [min |-> 0, max |-> n, clamp |-> TRUE]

\* lines 101-103: click.IntRange(0, devices_count); clamp is not passed
ChoiceType(n) == [min |-> 0, max |-> n, clamp |-> FALSE]

\* click.IntRange.convert: out of range fails unless clamp is set
IntRangeConvert(t, v) ==
    IF v < t.min THEN (IF t.clamp THEN [ok |-> TRUE, val |-> t.min] ELSE [ok |-> FALSE, val |-> v])
    ELSE IF v > t.max THEN (IF t.clamp THEN [ok |-> TRUE, val |-> t.max] ELSE [ok |-> FALSE, val |-> v])
    ELSE [ok |-> TRUE, val |-> v]

NumRejects == Cardinality({i \in Idx("prompt.choice") : ~trace[i].res.accepted})

\* lines 98-103: device_index = click.prompt(..., default=0, type=IntRange);
\* one round of the prompt: the human types an integer or just Enter (the
\* default); a value the type rejects shows an error and asks again
PromptChoice ==
    /\ pc = "2sa_choose"
    /\ LET t == ChoiceType(devices_count)
           about == [text |-> ChoicePrompt, default |-> ChoiceDefault, type |-> t]
       IN  \/ \E v \in TypedInts :
                LET r == IntRangeConvert(t, v)
                IN  /\ r.ok \/ NumRejects < MaxRejects
                    /\ Log(Ev("prompt.choice", about,
                              [input |-> <<v>>, accepted |-> r.ok, value |-> r.val]))
                    /\ device_index' = IF r.ok THEN r.val ELSE device_index
                    /\ pc' = IF r.ok THEN "2sa_branch" ELSE "2sa_choose"
           \/ LET r == IntRangeConvert(t, ChoiceDefault)
              IN  /\ r.ok
                  /\ Log(Ev("prompt.choice", about,
                            [input |-> <<>>, accepted |-> TRUE, value |-> r.val]))
                  /\ device_index' = r.val
                  /\ pc' = "2sa_branch"
    /\ UNCHANGED <<password, raise_error_on_2sa, icloud, devices, devices_count,
                   device, code, result>>

\* variant: off by one
UsesReceivedCode_OffByOne(index, count) == index = count - 1

\* line 105: if device_index == devices_count
UsesReceivedCode(index, count) == index = count

\* variant: the first device whatever was chosen
Selected_First(ds, index) == ds[1]

\* line 110: devices[device_index], for an index in 0 .. len - 1
Selected(ds, index) == ds[index + 1]

\* lines 105-110: device = {} for the extra entry, else devices[device_index]
\* (a Python list index: counted from 0, negative counts from the end,
\* anything else is an IndexError)
Branch ==
    /\ pc = "2sa_branch"
    /\ IF UsesReceivedCode(device_index, devices_count)
       THEN /\ device' = EmptyDict
            /\ pc' = "2sa_prompt"
            /\ UNCHANGED result
       ELSE IF device_index >= 0 /\ device_index < devices_count
       THEN /\ device' = Selected(devices, device_index)
            /\ pc' = "2sa_send"
            /\ UNCHANGED result
       ELSE IF device_index < 0 /\ device_index >= 0 - devices_count
       THEN /\ device' = devices[devices_count + device_index + 1]
            /\ pc' = "2sa_send"
            /\ UNCHANGED result
       ELSE /\ Raise("IndexError")
            /\ UNCHANGED device
    /\ UNCHANGED <<password, raise_error_on_2sa, icloud, devices, devices_count,
                   device_index, code, trace>>

\* variant: the result of the delivery call is ignored
AfterSend_Ignored(ok) == "2sa_prompt"

\* where request_2sa goes on the result of send_verification_code
AfterSend(ok) == IF ok THEN "2sa_prompt" ELSE "2sa_send_error"

\* line 111: if not icloud.send_verification_code(device)
Send ==
    /\ pc = "2sa_send"
    /\ \E ok \in BOOLEAN :
         /\ Log(Ev("send_verification_code", <<device>>, ok))
         /\ pc' = AfterSend(ok)
    /\ UNCHANGED <<password, raise_error_on_2sa, icloud, devices, devices_count,
                   device_index, device, code, result>>

\* line 112: logger.error("Failed to send two-factor authentication code")
SendError ==
    /\ pc = "2sa_send_error"
    /\ Log(Ev("logger.error", SendFailedMsg, NONE))
    /\ pc' = "2sa_send_exit"
    /\ UNCHANGED <<password, raise_error_on_2sa, icloud, devices, devices_count,
                   device_index, device, code, result>>

\* line 113: sys.exit(1)
SendExit ==
    /\ pc = "2sa_send_exit"
    /\ SysExit(ExitStatus)
    /\ UNCHANGED <<password, raise_error_on_2sa, icloud, devices, devices_count,
                   device_index, device, code>>

\* line 115: code = click.prompt("Please enter two-factor authentication code")
Prompt2saCode ==
    /\ pc = "2sa_prompt"
    /\ \E c \in TypedCodes :
         /\ code' = c
         /\ Log(Ev("prompt.code", [text |-> CodePrompt, hide_input |-> FALSE], c))
    /\ pc' = "2sa_validate"
    /\ UNCHANGED <<password, raise_error_on_2sa, icloud, devices, devices_count,
                   device_index, device, result>>

\* variant: the result of the validation is ignored
After2saValidate_Ignored(ok) == "2sa_guidance"

\* where request_2sa goes on the result of validate_verification_code
After2saValidate(ok) == IF ok THEN "2sa_guidance" ELSE "2sa_error"

\* line 116: if not icloud.validate_verification_code(device, code)
Validate2sa ==
    /\ pc = "2sa_validate"
    /\ \E ok \in BOOLEAN :
         /\ Log(Ev("validate_verification_code", <<device, code>>, ok))
         /\ pc' = After2saValidate(ok)
    /\ UNCHANGED <<password, raise_error_on_2sa, icloud, devices, devices_count,
                   device_index, device, code, result>>

\* line 117: logger.error("Failed to verify two-factor authentication code")
Error2sa ==
    /\ pc = "2sa_error"
    /\ Log(Ev("logger.error", VerifyFailedMsg, NONE))
    /\ pc' = "2sa_exit"
    /\ UNCHANGED <<password, raise_error_on_2sa, icloud, devices, devices_count,
                   device_index, device, code, result>>

\* line 118: sys.exit(1)
Exit2sa ==
    /\ pc = "2sa_exit"
    /\ SysExit(ExitStatus)
    /\ UNCHANGED <<password, raise_error_on_2sa, icloud, devices, devices_count,
                   device_index, device, code>>

\* lines 119-125: logger.info("Great, you're all set up. ..."), then back in
\* authenticate_ at line 63
Guidance2sa ==
    /\ pc = "2sa_guidance"
    /\ Log(Ev("logger.info", Guidance2saMsg, NONE))
    /\ pc' = "return"
    /\ UNCHANGED <<password, raise_error_on_2sa, icloud, devices, devices_count,
                   device_index, device, code, result>>

----------------------------------------------------------------------------
Next ==
    \/ Debug
    \/ OpenTry
    \/ PromptPassword
    \/ OpenRetry
    \/ If2fa
    \/ Raise2fa
    \/ Info2fa
    \/ Elif2sa
    \/ Raise2sa
    \/ Info2sa
    \/ Return
    \/ Prompt2faCode
    \/ Validate2fa
    \/ Error2fa
    \/ Exit2fa
    \/ Guidance2fa
    \/ FetchDevices
    \/ PrintMenu
    \/ PromptChoice
    \/ Branch
    \/ Send
    \/ SendError
    \/ SendExit
    \/ Prompt2saCode
    \/ Validate2sa
    \/ Error2sa
    \/ Exit2sa
    \/ Guidance2sa

Spec == Init /\ [][Next]_vars

----------------------------------------------------------------------------
(* Observations on the trace *)

\* the PyiCloudService calls made so far, in order
Opens == SelectSeq(trace, LAMBDA e : e.op = "openSession")

IsPrompt(e) == e.op \in {"prompt.password", "prompt.code", "prompt.choice"}
IsLegacyOp(e) ==
    e.op \in {"read.trusted_devices", "send_verification_code", "validate_verification_code"}
IsClientOp(e) == IsLegacyOp(e) \/ e.op = "validate_2fa_code"
IsValidation(e) == e.op \in {"validate_2fa_code", "validate_verification_code"}
IsGuidance(e) == e.op = "logger.info" /\ e.arg \in {Guidance2faMsg, Guidance2saMsg}

NumValidations == Cardinality({i \in DOMAIN trace : IsValidation(trace[i])})
NumGuidance == Cardinality({i \in DOMAIN trace : IsGuidance(trace[i])})

\* the loop of lines 28-47 has been left with a session
FacetReads == Idx("read.requires_2fa") \cup Idx("read.requires_2sa")

BootstrapReturned == pc = "if_2fa" \/ FacetReads # {}

\* regime detection (line 49) has read the first facet
Detecting == FacetReads # {}

Terminated(kind) == pc = "done" /\ result.kind = kind
FatalExit == Terminated("exit") /\ result.status # 0

----------------------------------------------------------------------------
(* C1 *)

\* C1: when the first openSession call fails with "no stored secret" and
\* every later call succeeds, bootstrap hands over a session after exactly
\* one secret prompt and exactly two openSession calls.
C1_ExactlyOneRetry ==
    ( /\ BootstrapReturned
      /\ Len(Opens) >= 1
      /\ Opens[1].res = NoStoredPassword
      /\ \A k \in 2 .. Len(Opens) : Opens[k].res = "ok" )
    => (Count("prompt.password") = 1 /\ Len(Opens) = 2)

----------------------------------------------------------------------------
(* C2 *)

FirstFacetRead == CHOOSE i \in FacetReads : \A j \in FacetReads : i <= j

\* C2: with raise_error_on_2sa set and a session that requires 2FA or 2SA,
\* once the facets are being read nothing follows but the second facet read
\* and the raise of TwoStepAuthRequiredError: no prompt, no Session Client
\* operation, no flow of request_2fa/request_2sa, and no session returned.
C2_NonInteractiveRaises ==
    (raise_error_on_2sa /\ Detecting /\ (icloud.requires_2fa \/ icloud.requires_2sa))
    => /\ pc \in {"elif_2sa", "2fa_mode", "2sa_mode", "done"}
       /\ pc = "done" => result = [kind |-> "raised", exc |-> "TwoStepAuthRequiredError",
                                   status |-> 0, session |-> 0]
       /\ \A i \in DOMAIN trace :
            i > FirstFacetRead =>
              /\ ~IsPrompt(trace[i])
              /\ ~IsClientOp(trace[i])
              /\ trace[i].op \in {"read.requires_2sa", "raise"}

C2_Witness ==
    /\ raise_error_on_2sa
    /\ ~icloud.requires_2fa /\ icloud.requires_2sa
    /\ Terminated("raised")
    /\ result.exc = "TwoStepAuthRequiredError"
    /\ Count("read.requires_2sa") = 1

----------------------------------------------------------------------------
(* C3 *)

In2saFlow == pc \in {"2sa_mode", "2sa_devices", "2sa_menu", "2sa_choose", "2sa_branch", "2sa_send",
                     "2sa_send_error", "2sa_send_exit", "2sa_prompt", "2sa_validate",
                     "2sa_error", "2sa_exit", "2sa_guidance"}

\* C3: for a session with requires_2fa and requires_2sa both true, the 2SA
\* side is never touched: requires_2sa is not consulted, trusted_devices is
\* not read, send_verification_code and validate_verification_code are not
\* called; in interactive mode the run ends only after validate_2fa_code.
C3_StrongTakesPrecedence ==
    (Detecting /\ icloud.requires_2fa /\ icloud.requires_2sa)
    => /\ ~In2saFlow
       /\ \A i \in DOMAIN trace : ~IsLegacyOp(trace[i]) /\ trace[i].op # "read.requires_2sa"
       /\ (pc = "done" /\ ~raise_error_on_2sa) => Count("validate_2fa_code") = 1
       /\ (pc = "done" /\ raise_error_on_2sa) => /\ result.exc = "TwoStepAuthRequiredError"
                                                 /\ trace[Len(trace)].res = TwoFactorMsg

C3_Witness ==
    /\ icloud.requires_2fa /\ icloud.requires_2sa
    /\ ~raise_error_on_2sa
    /\ Terminated("returned")
    /\ Count("validate_2fa_code") = 1

----------------------------------------------------------------------------
(* C4 *)

FailedValidations == {i \in DOMAIN trace : IsValidation(trace[i]) /\ trace[i].res = FALSE}

\* C4: after validate_2fa_code or validate_verification_code has returned
\* False, the only steps are logger.error and then sys.exit(1); the
\* validation was called once, the code was asked for once, no guidance
\* notice is logged and no session is returned.
C4_FailedValidationFatal ==
    \A i \in FailedValidations :
        /\ NumValidations = 1
        /\ Count("prompt.code") = 1
        /\ NumGuidance = 0
        /\ result.kind # "returned"
        /\ pc \in {"2fa_error", "2fa_exit", "2sa_error", "2sa_exit", "done"}
        /\ Len(trace) <= i + 2
        /\ Len(trace) >= i + 1 => trace[i + 1] = Ev("logger.error", VerifyFailedMsg, NONE)
        /\ Len(trace) >= i + 2 => trace[i + 2].op = "sys.exit"
        /\ pc = "done" => FatalExit /\ Len(trace) = i + 2

C4_Witness ==
    /\ FailedValidations # {}
    /\ FatalExit
    /\ Count("validate_verification_code") = 1

----------------------------------------------------------------------------
(* C5 *)

FailedSends == {i \in Idx("send_verification_code") : trace[i].res = FALSE}

\* C5: after send_verification_code has returned False, the only steps are
\* logger.error and then sys.exit(1); the code prompt never appears, no
\* validation is called and delivery is not requested again.
C5_FailedDeliveryFatal ==
    \A i \in FailedSends :
        /\ Count("send_verification_code") = 1
        /\ Count("prompt.code") = 0
        /\ NumValidations = 0
        /\ result.kind # "returned"
        /\ pc \in {"2sa_send_error", "2sa_send_exit", "done"}
        /\ Len(trace) <= i + 2
        /\ Len(trace) >= i + 1 => trace[i + 1] = Ev("logger.error", SendFailedMsg, NONE)
        /\ Len(trace) >= i + 2 => trace[i + 2].op = "sys.exit"
        /\ pc = "done" => FatalExit /\ Len(trace) = i + 2

C5_Witness ==
    /\ FailedSends # {}
    /\ FatalExit
    /\ Count("prompt.code") = 0

----------------------------------------------------------------------------
(* C6 *)

AcceptedChoices == {i \in Idx("prompt.choice") : trace[i].res.accepted}
RejectedChoices == Idx("prompt.choice") \ AcceptedChoices

HasFetched == Idx("read.trusted_devices") # {}

\* the list icloud.trusted_devices returned
Fetched == trace[CHOOSE i \in Idx("read.trusted_devices") : TRUE].res

\* C6: with a non-empty list of n devices and an accepted choice v: v = n
\* means send_verification_code is never called; v < n means it is called
\* once, after the choice, for element v of the fetched list, and the code
\* prompt comes only after that call.
C6_DeliveryDecision ==
    \A a \in AcceptedChoices :
        LET v == trace[a].res.value
            n == Len(Fetched)
        IN  /\ n > 0
            /\ v = n => Count("send_verification_code") = 0
            /\ v \in 0 .. n - 1 =>
                 /\ Count("send_verification_code") <= 1
                 /\ \A i \in Idx("send_verification_code") :
                      i > a /\ trace[i].arg = <<Fetched[v + 1]>>
                 /\ \A j \in Idx("prompt.code") :
                      \E i \in Idx("send_verification_code") : i < j
                 /\ pc \notin {"2sa_branch", "2sa_send"} => Count("send_verification_code") = 1

C6_Witness ==
    /\ \E a \in AcceptedChoices : trace[a].res.value = 1
    /\ Len(Fetched) = 2
    /\ Count("send_verification_code") = 1
    /\ Count("prompt.code") = 1

----------------------------------------------------------------------------
(* C7 *)

\* C7: when trusted_devices is empty nothing is printed, the selection
\* prompt is not issued, send_verification_code is not called, no list
\* element is indexed (no IndexError), and validate_verification_code gets
\* the empty dict as its device.
C7_EmptyDeviceList ==
    (HasFetched /\ Fetched = <<>>)
    => /\ Count("print") = 0
       /\ Count("prompt.choice") = 0
       /\ Count("send_verification_code") = 0
       /\ pc \notin {"2sa_menu", "2sa_choose", "2sa_send", "2sa_send_error", "2sa_send_exit"}
       /\ result.exc # "IndexError"
       /\ \A i \in Idx("validate_verification_code") : trace[i].arg[1] = EmptyDict

C7_Witness ==
    /\ HasFetched
    /\ Fetched = <<>>
    /\ Count("validate_verification_code") = 1

----------------------------------------------------------------------------
(* C8 *)

\* what an answer to the selection prompt stands for: the integer typed, or
\* the default when only Enter was typed
Typed(e) == IF e.res.input = <<>> THEN e.arg.default ELSE e.res.input[1]

IsAfterChoice(e) == e.op \in {"send_verification_code", "validate_verification_code", "prompt.code"}

\* C8: at the selection prompt for n > 0 devices, an answer is accepted
\* exactly when it lies in 0..n; a rejected answer is followed by the prompt
\* again; the index the flow goes on with is the accepted answer itself
\* (0 for the default), and no delivery, validation or code prompt comes
\* before the accepted answer.
C8_SelectionValidated ==
    /\ \A i \in Idx("prompt.choice") :
         LET e == trace[i]
             n == Len(Fetched)
         IN  /\ n > 0
             /\ e.arg.default = 0
             /\ e.res.accepted <=> Typed(e) \in 0 .. n
             /\ e.res.accepted =>
                  /\ e.res.value = Typed(e)
                  /\ device_index = Typed(e)
                  /\ pc # "2sa_choose"
                  /\ \A j \in Idx("prompt.choice") : j <= i
             /\ ~e.res.accepted =>
                  /\ IF i = Len(trace) THEN pc = "2sa_choose" ELSE trace[i + 1].op = "prompt.choice"
                  /\ \A j \in DOMAIN trace : IsAfterChoice(trace[j]) => j > i
    /\ pc \in {"2sa_menu", "2sa_choose"} => \A j \in DOMAIN trace : ~IsAfterChoice(trace[j])
    /\ \A j \in DOMAIN trace :
         (IsAfterChoice(trace[j]) /\ HasFetched /\ Len(Fetched) > 0)
         => \E a \in AcceptedChoices : a < j

C8_Witness ==
    /\ \E i \in RejectedChoices : Typed(trace[i]) = Len(Fetched) + 1
    /\ \E i \in RejectedChoices : Typed(trace[i]) < 0
    /\ \E a \in AcceptedChoices : trace[a].res.value = 1
    /\ Count("send_verification_code") = 1

----------------------------------------------------------------------------
(* C9 *)

\* C9: a PyiCloudService call that fails with anything but
\* PyiCloudNoStoredPasswordAvailableException is the last thing that
\* happens: no prompt, no further call, no regime detection; the same
\* exception leaves authenticate_.
C9_OtherFailuresPropagate ==
    \A k \in 1 .. Len(Opens) :
        Opens[k].res \in OtherFailures =>
            /\ k = Len(Opens)
            /\ trace[Len(trace)] = Opens[k]
            /\ pc = "done"
            /\ result = [kind |-> "raised", exc |-> Opens[k].res, status |-> 0, session |-> 0]
            /\ ~Detecting

C9_Witness ==
    /\ Len(Opens) = 1
    /\ Opens[1].res = "PyiCloudFailedLoginException"
    /\ Terminated("raised")
    /\ Count("prompt.password") = 0

----------------------------------------------------------------------------
(* C10 *)

\* C10: when the first call and the call made after the password prompt
\* both fail with PyiCloudNoStoredPasswordAvailableException, the second
\* failure leaves authenticate_: one prompt, two calls, nothing after.
C10_SecondMissingSecretNotRetried ==
    ( /\ Len(Opens) >= 2
      /\ Opens[1].res = NoStoredPassword
      /\ Opens[2].res = NoStoredPassword )
    => /\ Len(Opens) = 2
       /\ Count("prompt.password") = 1
       /\ trace[Len(trace)] = Opens[2]
       /\ pc = "done"
       /\ result = [kind |-> "raised", exc |-> NoStoredPassword, status |-> 0, session |-> 0]

C10_Witness ==
    /\ Len(Opens) = 2
    /\ Opens[1].res = NoStoredPassword
    /\ Opens[2].res = NoStoredPassword
    /\ Terminated("raised")

----------------------------------------------------------------------------
(* C11 *)

\* C11: when the first PyiCloudService call returns a session, that session
\* is the one regime detection gets: one call, no password prompt.
C11_FirstCallSucceeds ==
    (Len(Opens) >= 1 /\ Opens[1].res = "ok")
    => /\ Len(Opens) = 1
       /\ Count("prompt.password") = 0
       /\ BootstrapReturned
       /\ icloud.id = 1
       /\ pc \notin {"try", "except", "retry"}
       /\ Terminated("returned") => result.session = 1

C11_Witness ==
    /\ Len(Opens) = 1
    /\ Opens[1].res = "ok"
    /\ Terminated("returned")
    /\ result.session = 1

----------------------------------------------------------------------------
(* C12 *)

\* C12: for a session with requires_2fa and requires_2sa both false, in
\* either mode, nothing follows the facet reads but the return of that same
\* session (the one the last PyiCloudService call returned): no prompt, no
\* logger call, no Session Client operation, no TwoStepAuthRequiredError.
C12_AlreadyAuthenticated ==
    (Detecting /\ ~icloud.requires_2fa /\ ~icloud.requires_2sa)
    => /\ pc \in {"elif_2sa", "return", "done"}
       /\ \A i \in DOMAIN trace :
            i > FirstFacetRead => trace[i].op \in {"read.requires_2sa", "return"}
       /\ Count("raise") = 0
       /\ icloud.id = Len(Opens)
       /\ Opens[Len(Opens)].res = "ok"
       /\ pc = "done" => result = [kind |-> "returned", exc |-> "", status |-> 0,
                                   session |-> icloud.id]

C12_Witness ==
    /\ ~icloud.requires_2fa /\ ~icloud.requires_2sa
    /\ raise_error_on_2sa
    /\ Terminated("returned")
    /\ result.session = icloud.id

----------------------------------------------------------------------------
(* C13 *)

\* the regime a TwoStepAuthRequiredError tells its catcher: all it carries
\* is its message
SignalledRegime(msg) ==
    IF msg = TwoFactorMsg THEN "strong" ELSE IF msg = TwoStepMsg THEN "legacy" ELSE "unknown"

Raises == Idx("raise")

----------------------------------------------------------------------------
(* C14 *)

\* what has been printed, in order
Printed == SelectSeq(trace, LAMBDA e : e.op = "print")

NameOf(d) == (CHOOSE p \in d : p[1] = "deviceName")[2]
PhoneOf(d) == (CHOOSE p \in d : p[1] = "phoneNumber")[2]

\* the menu entry expected for device d at position i
ExpectedEntry(i, d) ==
    <<"  ", Digit(i), ": ">>
    \o (IF \E p \in d : p[1] = "deviceName" THEN <<NameOf(d)>> ELSE <<"SMS to ", PhoneOf(d)>>)

ExpectedLastEntry(n) == <<"  ", Digit(n), ": Enter two-factor authentication code">>

ExampleDevices == << {<<"deviceName", "iPhone">>}, {<<"phoneNumber", "+15551234">>} >>

----------------------------------------------------------------------------
(* C15 *)

PromptsBefore(i) == {j \in Idx("prompt.password") : j < i}
LastPromptBefore(i) == CHOOSE j \in PromptsBefore(i) : \A k \in PromptsBefore(i) : k <= j

\* C15: every PyiCloudService call, the one made after the password prompt
\* included, gets the domain first, the username second and the password
\* third, with the session options by keyword; after a prompt the password
\* passed is the one just typed.
C15_RetryArguments ==
    \A i \in Idx("openSession") :
        LET a == trace[i].arg
        IN  /\ Len(a.pos) = 3
            /\ a.pos[1] = Domain
            /\ a.pos[2] = Username
            /\ a.kw = Options
            /\ PromptsBefore(i) # {} => a.pos[3] = trace[LastPromptBefore(i)].res

----------------------------------------------------------------------------
(* C16 *)

\* the index the flow goes on with: the accepted answer, or 0 when the
\* prompt was skipped
ChosenIndex ==
    IF AcceptedChoices = {} THEN 0 ELSE trace[CHOOSE a \in AcceptedChoices : TRUE].res.value

\* C16: when validate_verification_code is called, trusted_devices has
\* been read once, before the selection; the device passed is the empty
\* dict exactly when send_verification_code was not called, and otherwise
\* it is the device send_verification_code was called for, which is the
\* element of the fetched list at the chosen index.
C16_DeviceConsistency ==
    \A i \in Idx("validate_verification_code") :
        LET dv == trace[i].arg[1]
        IN  /\ Count("read.trusted_devices") = 1
            /\ \A c \in Idx("prompt.choice") : \A f \in Idx("read.trusted_devices") : f < c
            /\ dv = device
            /\ dv = EmptyDict <=> Count("send_verification_code") = 0
            /\ Count("send_verification_code") <= 1
            /\ \A j \in Idx("send_verification_code") :
                 /\ j < i
                 /\ trace[j].arg[1] = dv
                 /\ ChosenIndex < Len(Fetched)
                 /\ dv = Fetched[ChosenIndex + 1]
            /\ Count("send_verification_code") = 0 => ChosenIndex = Len(Fetched)

C16_Witness ==
    /\ Count("validate_verification_code") = 1
    /\ Count("send_verification_code") = 1
    /\ ChosenIndex = 1
    /\ Len(Fetched) = 2
    /\ Fetched[1] # Fetched[2]

----------------------------------------------------------------------------
(* C17 *)

Validated(op) == \E i \in Idx(op) : trace[i].res = TRUE

\* C17: authenticate_ returns a session only if that session required
\* neither regime, or required 2FA and validate_2fa_code returned True, or
\* required only 2SA and validate_verification_code returned True; with
\* raise_error_on_2sa set, only a session that requires neither is
\* returned.
C17_NoUnverifiedSession ==
    (Count("return") > 0 \/ result.kind = "returned")
    => /\ result.kind = "returned" => result.session = icloud.id
       /\ \/ ~icloud.requires_2fa /\ ~icloud.requires_2sa
          \/ icloud.requires_2fa /\ Validated("validate_2fa_code")
          \/ ~icloud.requires_2fa /\ icloud.requires_2sa
               /\ Validated("validate_verification_code")
       /\ FailedValidations = {}
       /\ FailedSends = {}
       /\ Count("raise") = 0
       /\ raise_error_on_2sa => (~icloud.requires_2fa /\ ~icloud.requires_2sa)

C17_Witness ==
    /\ Terminated("returned")
    /\ ~icloud.requires_2fa /\ icloud.requires_2sa
    /\ Validated("validate_verification_code")

----------------------------------------------------------------------------
(* C18 *)

\* C18: whatever the PyiCloudService calls return, the loop of lines 28-47
\* asks for the password at most once.
C18_AtMostOnePrompt == Count("prompt.password") <= 1

----------------------------------------------------------------------------
(* C19 *)

IsRequiredNotice(e) == e.op = "logger.info" /\ e.arg \in {TwoFactorMsg, TwoStepInfo}
IsChallengeStep(e) == e.op \in {"prompt.code", "prompt.choice", "print", "read.trusted_devices"}

\* C19: in interactive mode the "... is required!" notice comes before the
\* first step of the challenge; the guidance notice comes only after a
\* validation returned True and before the return; logger.error comes
\* right before every sys.exit; guidance and error never both occur.
C19_MessageOrdering ==
    /\ \A j \in DOMAIN trace :
         IsChallengeStep(trace[j]) =>
           /\ ~raise_error_on_2sa
           /\ \E i \in 1 .. j - 1 : IsRequiredNotice(trace[i])
    /\ \A g \in DOMAIN trace :
         IsGuidance(trace[g]) =>
           /\ g > 1
           /\ IsValidation(trace[g - 1]) /\ trace[g - 1].res = TRUE
           /\ \A r \in Idx("return") : r > g
    /\ \A x \in Idx("sys.exit") :
         /\ x > 1
         /\ trace[x - 1].op = "logger.error"
         /\ trace[x].arg # 0
    /\ ~(NumGuidance > 0 /\ Count("logger.error") > 0)
    /\ Terminated("exit") => Count("logger.error") = 1
    /\ (Terminated("returned") /\ (icloud.requires_2fa \/ icloud.requires_2sa)) => NumGuidance = 1

C19_Witness ==
    /\ Terminated("exit")
    /\ icloud.requires_2fa
    /\ Count("logger.error") = 1
    /\ \E i \in DOMAIN trace : IsRequiredNotice(trace[i])

====
